---- MODULE Spec2Model ----
(***************************************************************************)
(* Model of openwisp_controller/config/tasks.py: the celery tasks of the   *)
(* config app.  Each task is a small process; the database tables, the     *)
(* cache and the clock are the shared state.                                *)
(*                                                                         *)
(* Text is modelled as a sequence of tokens.  The tokens ";", "=" and "\n" *)
(* are the separator characters the code splits on; every other token      *)
(* stands for a run of characters that contains none of them.              *)
(***************************************************************************)
EXTENDS Integers, Sequences, FiniteSets, TLC

VARIABLES
  family,     \* the family of tasks this behaviour runs
  registry,   \* AdoptableDevice table: sequence of rows
  clock,      \* wall clock read by datetime.now()
  disc,       \* update_adoptable_antenna_list: one process per worker
  task,       \* the process of every other task
  configs,    \* Config table: status of each config
  vpns,       \* Vpn table: the stored row of each existing vpn
  clients,    \* VpnClient cache: the cached clients of each vpn server
  cache,      \* DeviceGroupCommonName cache: the cached value of each key
  src,        \* version of the entities each cache key is derived from
  queue,      \* invalidation tasks sent to the broker, not yet run
  lastRead    \* what the last reader of the cache got

discVars == <<registry, clock, disc>>
tspVars == <<configs>>
vpnVars == <<vpns, clients>>
cacheVars == <<cache, src, queue, lastRead>>
vars == <<family, discVars, task, tspVars, vpnVars, cacheVars>>

(***************************************************************************)
(* Bounds of the model                                                     *)
(***************************************************************************)
MaxLines == 2    \* lines of one announcement text
MaxClock == 3    \* readings of the clock in one behaviour
MaxQueue == 1    \* invalidation tasks waiting in the broker
MaxVer == 1      \* changes of the source of one cache key

Workers == {"w1", "w2"}

\* one worker runs the tasks one after the other
SeqWorkers == {"w1"}

(***************************************************************************)
(* Python string and dict operations used by the discovery task            *)
(***************************************************************************)
HasSep(s, sep) == \E i \in 1..Len(s) : s[i] = sep

FirstSep(s, sep) ==
  CHOOSE i \in 1..Len(s) : s[i] = sep /\ \A j \in 1..(i - 1) : s[j] # sep

\* str.split(sep): all the pieces, one more than the separators
RECURSIVE Split(_, _)
Split(s, sep) ==
  IF ~HasSep(s, sep) THEN <<s>>
  ELSE LET i == FirstSep(s, sep)
       IN  <<SubSeq(s, 1, i - 1)>> \o Split(SubSeq(s, i + 1, Len(s)), sep)

\* str.split(sep, maxsplit=1): cut at the first separator only
SplitMax1(s, sep) ==
  IF ~HasSep(s, sep) THEN <<s>>
  ELSE LET i == FirstSep(s, sep)
       IN  <<SubSeq(s, 1, i - 1), SubSeq(s, i + 1, Len(s))>>

\* a variant that takes every line that is not empty
StartsWithAny(s, c) == Len(s) >= 1

\* str.startswith(c) for a one-character prefix
StartsWith(s, c) == Len(s) >= 1 /\ s[1] = c

\* antenna[9:]
TxtFields(antenna) == SubSeq(antenna, 10, Len(antenna))

EmptyDict == [k \in {} |-> <<>>]

DictSet(d, k, v) == [x \in (DOMAIN d) \cup {k} |-> IF x = k THEN v ELSE d[x]]

\* records.get(k) == None
GetIsNone(d, k) == k \notin DOMAIN d

\* the loop of lines 43-45; t[1] raises IndexError when txt holds no '='
RECURSIVE TxtRecords(_, _)
TxtRecords(txts, records) ==
  IF txts = <<>> THEN [raised |-> FALSE, records |-> records]
  ELSE LET t == SplitMax1(Head(txts), "=")
       IN  IF Len(t) < 2
           THEN [raised |-> TRUE, records |-> records]
           ELSE TxtRecords(Tail(txts), DictSet(records, t[1], t[2]))

KeyMac == <<"mac">>
KeyOsVersion == <<"os_version">>
KeyVersion == <<"version">>

\* the test of line 47
InvalidAnnouncement(records) ==
  \/ GetIsNone(records, KeyMac)
  \/ GetIsNone(records, KeyOsVersion)
  \/ GetIsNone(records, KeyVersion)

(***************************************************************************)
(* The AdoptableDevice table                                               *)
(***************************************************************************)
Matching(reg, ip) == {r \in 1..Len(reg) : reg[r].ip = ip}

\* a variant that gives None (row 0) when no row matches, and the first
\* matching row otherwise
ObjectsFirst(reg, ip) ==
  LET m == Matching(reg, ip)
  IN  IF m = {} THEN [exc |-> "", row |-> 0]
      ELSE [exc |-> "", row |-> CHOOSE r \in m : \A q \in m : r <= q]

\* AdoptableDevice.objects.get(ip=...): a Django manager's get() returns the
\* one matching row and raises when there is none or more than one
ObjectsGet(reg, ip) ==
  LET m == Matching(reg, ip)
  IN  IF m = {} THEN [exc |-> "DoesNotExist", row |-> 0]
      ELSE IF Cardinality(m) > 1
           THEN [exc |-> "MultipleObjectsReturned", row |-> 0]
           ELSE [exc |-> "", row |-> CHOOSE r \in m : TRUE]

\* a variant that saves a sighting as it would save a new row
SaveAsNew(reg, row, now) ==
  [reg EXCEPT ![row].first_seen = now, ![row].last_seen = now]

\* a variant that writes the time to every row of the table
SaveLastSeenAll(reg, row, now) ==
  [r \in DOMAIN reg |-> [reg[r] EXCEPT !.last_seen = now]]

\* a variant that writes the time to the wrong field
SaveFirstSeen(reg, row, now) == [reg EXCEPT ![row].first_seen = now]

\* known_adoptable.last_seen = now; known_adoptable.save()
SaveLastSeen(reg, row, now) == [reg EXCEPT ![row].last_seen = now]

\* AdoptableDevice(mac, 'key', os_version, ip, now, now).save()
SaveNew(reg, records, ip, now) ==
  Append(reg, [mac |-> records[KeyMac], key |-> <<"key">>,
               os_version |-> records[KeyOsVersion], ip |-> ip,
               first_seen |-> now, last_seen |-> now])

(***************************************************************************)
(* Announcement texts fed to the discovery task                            *)
(***************************************************************************)
IpA == <<"10.0.0.5">>
IpB == <<"10.0.0.6">>
IpC == <<"10.0.0.7">>

Prefix(marker, ip) ==
  <<marker, ";", "eth0", ";", "IPv4", ";", "host", ";", "_openwisp-unmanaged._tcp",
    ";", "local", ";", "host.local", ";">> \o ip \o <<";", "1234">>

TxtMac == <<";", "mac", "=", "AA:BB">>
TxtOs == <<";", "os_version", "=", "1.2", "=", "rc1">>
TxtVersion == <<";", "version", "=", "3.0">>
TxtJunk == <<";", "junk">>

LineKnown == Prefix("=", IpA) \o TxtMac \o TxtOs \o TxtVersion
LineUnknown == Prefix("=", IpB) \o TxtOs \o TxtVersion \o TxtMac
LineNoVersion == Prefix("=", IpA) \o TxtMac \o TxtOs
LineJunk == Prefix("=", IpA) \o TxtMac \o TxtJunk
LineShort == <<"=", ";", "eth0", ";", "IPv4">>
LineAdded == Prefix("+", IpA) \o TxtMac \o TxtOs \o TxtVersion
LineEmpty == <<>>

Lines == {LineKnown, LineUnknown, LineNoVersion, LineJunk, LineShort,
          LineAdded, LineEmpty}

RECURSIVE Join(_)
Join(ls) ==
  IF Len(ls) = 0 THEN <<>>
  ELSE IF Len(ls) = 1 THEN ls[1]
       ELSE ls[1] \o <<"\n">> \o Join(Tail(ls))

Texts == {Join(ls) : ls \in UNION {[1..n -> Lines] : n \in 0..MaxLines}}

RowA == [mac |-> <<"AA:BB">>, key |-> <<"key">>, os_version |-> <<"1.0">>,
         ip |-> IpA, first_seen |-> 0, last_seen |-> 0]
RowC == [mac |-> <<"CC:DD">>, key |-> <<"key">>, os_version |-> <<"1.0">>,
         ip |-> IpC, first_seen |-> 0, last_seen |-> 0]

InitRegistries == {<<>>, <<RowA>>, <<RowA, RowC>>}

(***************************************************************************)
(* update_adoptable_antenna_list                                           *)
(***************************************************************************)
DiscIdle ==
  [pc |-> "idle", lines |-> <<>>, i |-> 0, antenna |-> <<>>,
   records |-> EmptyDict, now |-> 0, known |-> 0, result |-> "none",
   out |-> <<>>, log |-> <<>>]

NoneRunning == \A w \in Workers : disc[w].pc = "idle"

\* the line the loop of line 25 is at
Antenna(w) == disc[w].lines[disc[w].i]

\* an entry of the trace of what the loop did with line i: found is the
\* number of rows the lookup matched (-1: no lookup), before and after the
\* last_seen of the row written, added the number of rows the write added
Outcome(i, kind, found, row, before, after, added) ==
  [i |-> i, kind |-> kind, found |-> found, row |-> row, before |-> before,
   after |-> after, added |-> added]

\* advance the loop: the next line, or the end of the task
NextLine(d, o) ==
  IF d.i < Len(d.lines)
  THEN [d EXCEPT !.pc = "line", !.i = d.i + 1, !.out = Append(d.out, o)]
  ELSE [d EXCEPT !.pc = "done", !.result = "returned", !.out = Append(d.out, o)]

\* an uncaught exception ends the task
Raise(d, exc, found) ==
  [d EXCEPT !.pc = "done", !.result = exc,
            !.out = Append(d.out, Outcome(d.i, "raised", found, 0, 0, 0, 0))]

\* line 22: the output of avahi-browse, split into lines
DiscStart(w) ==
  /\ family = "discovery"
  /\ NoneRunning
  /\ \E text \in Texts :
       disc' = [disc EXCEPT ![w] =
                  [DiscIdle EXCEPT !.pc = "line", !.i = 1,
                                   !.lines = Split(text, "\n")]]
  /\ UNCHANGED <<family, registry, clock, task, tspVars, vpnVars, cacheVars>>

\* line 26: a line that is not resolved is passed over
DiscIgnoreLine(w) ==
  /\ disc[w].pc = "line"
  /\ ~StartsWith(Antenna(w), "=")
  /\ disc' = [disc EXCEPT ![w] =
                NextLine(disc[w], Outcome(disc[w].i, "ignored", -1, 0, 0, 0, 0))]
  /\ UNCHANGED <<family, registry, clock, task, tspVars, vpnVars, cacheVars>>

\* lines 37-45: a TXT field without '=' raises IndexError
DiscTxtRaises(w) ==
  /\ disc[w].pc = "line"
  /\ StartsWith(Antenna(w), "=")
  /\ LET antenna == Split(Antenna(w), ";")
         parsed == TxtRecords(TxtFields(antenna), EmptyDict)
     IN  /\ parsed.raised
         /\ disc' = [disc EXCEPT ![w] =
                       Raise([disc[w] EXCEPT !.antenna = antenna],
                             "IndexError", -1)]
  /\ UNCHANGED <<family, registry, clock, task, tspVars, vpnVars, cacheVars>>

\* lines 47-52: an announcement without mac, os_version or version
DiscInvalid(w) ==
  /\ disc[w].pc = "line"
  /\ StartsWith(Antenna(w), "=")
  /\ LET antenna == Split(Antenna(w), ";")
         parsed == TxtRecords(TxtFields(antenna), EmptyDict)
     IN  /\ ~parsed.raised
         /\ InvalidAnnouncement(parsed.records)
         /\ disc' = [disc EXCEPT ![w] =
                       NextLine([disc[w] EXCEPT
                                   !.antenna = antenna,
                                   !.records = parsed.records,
                                   !.log = Append(@, [level |-> "warning",
                                                      i |-> disc[w].i])],
                                Outcome(disc[w].i, "warned", -1, 0, 0, 0, 0))]
  /\ UNCHANGED <<family, registry, clock, task, tspVars, vpnVars, cacheVars>>

\* lines 37-54: a valid announcement; now = datetime.now()
DiscValid(w) ==
  /\ disc[w].pc = "line"
  /\ StartsWith(Antenna(w), "=")
  /\ clock < MaxClock
  /\ LET antenna == Split(Antenna(w), ";")
         parsed == TxtRecords(TxtFields(antenna), EmptyDict)
     IN  /\ ~parsed.raised
         /\ ~InvalidAnnouncement(parsed.records)
         /\ disc' = [disc EXCEPT ![w].pc = "get",
                                 ![w].antenna = antenna,
                                 ![w].records = parsed.records,
                                 ![w].now = clock + 1]
  /\ clock' = clock + 1
  /\ UNCHANGED <<family, registry, task, tspVars, vpnVars, cacheVars>>

\* line 56: known_adoptable = AdoptableDevice.objects.get(ip=antenna[7])
DiscGet(w) ==
  /\ disc[w].pc = "get"
  /\ LET got == ObjectsGet(registry, disc[w].antenna[8])
     IN  disc' = [disc EXCEPT ![w] =
                    IF got.exc # ""
                    THEN Raise(disc[w], got.exc,
                               Cardinality(Matching(registry, disc[w].antenna[8])))
                    ELSE [disc[w] EXCEPT !.pc = "save", !.known = got.row]]
  /\ UNCHANGED <<family, registry, clock, task, tspVars, vpnVars, cacheVars>>

\* lines 57-67: update last_seen of the known row, or add a row
DiscSave(w) ==
  /\ disc[w].pc = "save"
  /\ LET d == disc[w]
         ip == d.antenna[8]
         found == Cardinality(Matching(registry, ip))
         saved == IF d.known # 0
                  THEN SaveLastSeen(registry, d.known, d.now)
                  ELSE SaveNew(registry, d.records, ip, d.now)
         row == IF d.known # 0 THEN d.known ELSE Len(saved)
         before == IF d.known # 0 THEN registry[d.known].last_seen ELSE 0
     IN  /\ registry' = saved
         /\ disc' = [disc EXCEPT ![w] =
                       NextLine(d, Outcome(d.i,
                                           IF d.known # 0 THEN "updated"
                                                          ELSE "created",
                                           found, row, before,
                                           saved[row].last_seen,
                                           Len(saved) - Len(registry)))]
  /\ UNCHANGED <<family, clock, task, tspVars, vpnVars, cacheVars>>

\* the task has ended: its worker is free for the next one
DiscRelease(w) ==
  /\ disc[w].pc = "done"
  /\ disc' = [disc EXCEPT ![w] = DiscIdle]
  /\ UNCHANGED <<family, registry, clock, task, tspVars, vpnVars, cacheVars>>

(***************************************************************************)
(* The process of the other tasks                                          *)
(***************************************************************************)
Entries ==
  {[org |-> "o1", cn |-> "cn1", device |-> "d1", group |-> "g1", cert |-> "x1"],
   [org |-> "o1", cn |-> "cn2", device |-> "d2", group |-> "g1", cert |-> "x2"],
   [org |-> "o2", cn |-> "cn1", device |-> "d3", group |-> "g2", cert |-> "x3"]}

Absent == -1

EmptyCache == [e \in Entries |-> Absent]

NoKwargs == [organization_id |-> "", common_name |-> ""]

DhUnset == [bits |-> 0, pem |-> "unset"]

NoVpn == [name |-> "", dh |-> DhUnset]

TaskIdle ==
  [name |-> "none", pc |-> "idle", pk |-> "", model_name |-> "",
   kwargs |-> NoKwargs, vpn |-> NoVpn, stored |-> NoVpn, todo |-> {},
   timedOut |-> FALSE, invalid |-> FALSE, before |-> EmptyCache, after |-> EmptyCache,
   result |-> "none", calls |-> <<>>, log |-> <<>>, repeat |-> FALSE,
   response |-> 0]

TaskFree == task.pc \in {"idle", "done"}

Call(fn, arg) == [fn |-> fn, arg |-> arg]

Returned(t) == [t EXCEPT !.pc = "done", !.result = "returned"]

Raised(t, exc) == [t EXCEPT !.pc = "done", !.result = exc]

(***************************************************************************)
(* update_template_related_config_status                                   *)
(***************************************************************************)
Templates == {"t1", "t2"}

TemplatePks == Templates \cup {"t9"}

Configs == {"c1", "c2", "c3"}

\* the configs bound to a template
Bound(t) == IF t = "t1" THEN {"c1", "c2"} ELSE IF t = "t2" THEN {"c3"} ELSE {}

\* a variant whose lookup never fails
TemplateAlwaysFound(pk) == TRUE

\* Template.objects.get(pk=template_pk), lines 81-83
TemplateExists(pk) == pk \in Templates

TspName == "update_template_related_config_status"

TspStart ==
  /\ family = "template"
  /\ TaskFree
  /\ \E pk \in TemplatePks :
       task' = [TaskIdle EXCEPT !.name = TspName, !.pc = "get", !.pk = pk]
  /\ UNCHANGED <<family, discVars, tspVars, vpnVars, cacheVars>>

\* lines 83-87: no such template: a warning, and the task returns
TspMissing ==
  /\ task.name = TspName /\ task.pc = "get"
  /\ ~TemplateExists(task.pk)
  /\ task' = Returned([task EXCEPT !.log = Append(@, [level |-> "warning"])])
  /\ UNCHANGED <<family, discVars, tspVars, vpnVars, cacheVars>>

\* lines 82, 88-89: the template is there; _update_related_config_status()
\* is entered
TspCall ==
  /\ task.name = TspName /\ task.pc = "get"
  /\ TemplateExists(task.pk)
  /\ task' = [task EXCEPT !.pc = "recompute", !.todo = Bound(task.pk),
                          !.calls = Append(@, Call("_update_related_config_status",
                                                   <<task.pk>>))]
  /\ UNCHANGED <<family, discVars, tspVars, vpnVars, cacheVars>>

\* Template._update_related_config_status at work: one more bound config is
\* flagged as modified
TspPropagate ==
  /\ task.name = TspName /\ task.pc = "recompute"
  /\ \E c \in task.todo :
       /\ configs' = [configs EXCEPT ![c] = "modified"]
       /\ task' = [task EXCEPT !.todo = @ \ {c}]
  /\ UNCHANGED <<family, discVars, vpnVars, cacheVars>>

\* line 89 returns: the task ends
TspDone ==
  /\ task.name = TspName /\ task.pc = "recompute"
  /\ task.todo = {}
  /\ task' = Returned(task)
  /\ UNCHANGED <<family, discVars, tspVars, vpnVars, cacheVars>>

\* a variant that logs and runs the task again
TspRetryOnTimeLimit(t) ==
  [t EXCEPT !.pc = "get", !.timedOut = TRUE,
            !.log = Append(@, [level |-> "error"])]

\* what the handler of lines 90-95 leaves: an error in the log, and the end
\* of the task
TspOnTimeLimit(t) ==
  Returned([t EXCEPT !.timedOut = TRUE, !.log = Append(@, [level |-> "error"])])

\* lines 90-95: SoftTimeLimitExceeded raised inside the operation
TspSoftTimeLimit ==
  /\ task.name = TspName /\ task.pc = "recompute"
  /\ task' = TspOnTimeLimit(task)
  /\ UNCHANGED <<family, discVars, tspVars, vpnVars, cacheVars>>

(***************************************************************************)
(* create_vpn_dh                                                           *)
(***************************************************************************)
DhBits == 2048

VpnPks == {"v1", "v9"}

DhOld == [bits |-> DhBits, pem |-> "old"]

\* Vpn.dhparam(bits)
Dhparam(bits) == [bits |-> bits, pem |-> "new"]

InitVpns == {[v \in {"v1"} |-> [name |-> "vpn", dh |-> dh]] : dh \in {DhUnset, DhOld}}

DhName == "create_vpn_dh"

DhStart ==
  /\ family = "vpn"
  /\ TaskFree
  /\ \E pk \in VpnPks :
       task' = [TaskIdle EXCEPT !.name = DhName, !.pc = "get", !.pk = pk]
  /\ UNCHANGED <<family, discVars, tspVars, vpnVars, cacheVars>>

\* a variant that gives None for a missing row instead of raising
VpnFirst(pk) ==
  [exc |-> "", row |-> IF pk \in DOMAIN vpns THEN vpns[pk] ELSE NoVpn]

\* Vpn.objects.get(pk=vpn_pk), lines 104 and 137: the row, or DoesNotExist
VpnGet(pk) ==
  IF pk \in DOMAIN vpns THEN [exc |-> "", row |-> vpns[pk]]
  ELSE [exc |-> "DoesNotExist", row |-> NoVpn]

\* line 104: vpn = Vpn.objects.get(pk=vpn_pk); DoesNotExist is not caught
DhGet ==
  /\ task.name = DhName /\ task.pc = "get"
  /\ LET got == VpnGet(task.pk)
     IN  task' = IF got.exc = ""
                 THEN [task EXCEPT !.pc = "dhparam", !.vpn = got.row,
                                   !.stored = got.row]
                 ELSE Raised(task, got.exc)
  /\ UNCHANGED <<family, discVars, tspVars, vpnVars, cacheVars>>

\* line 106: the parameters are generated and assigned to vpn.dh
DhGenerated ==
  /\ task.name = DhName /\ task.pc = "dhparam"
  /\ task' = [task EXCEPT !.pc = "full_clean", !.vpn.dh = Dhparam(DhBits),
                          !.calls = Append(@, Call("dhparam", <<>>))]
  /\ UNCHANGED <<family, discVars, tspVars, vpnVars, cacheVars>>

\* a variant without the else: validation and save follow the handler
DhFallThroughOnTimeLimit(t) ==
  [t EXCEPT !.pc = "full_clean", !.timedOut = TRUE,
            !.calls = Append(@, Call("dhparam", <<>>)),
            !.log = Append(@, [level |-> "error"])]

\* what the handler of lines 107-111 leaves: an error in the log; the else
\* branch of the try is not run
DhOnTimeLimit(t) ==
  Returned([t EXCEPT !.timedOut = TRUE,
                     !.calls = Append(@, Call("dhparam", <<>>)),
                     !.log = Append(@, [level |-> "error"])])

\* lines 106-111: SoftTimeLimitExceeded raised inside Vpn.dhparam
DhSoftTimeLimit ==
  /\ task.name = DhName /\ task.pc = "dhparam"
  /\ task' = DhOnTimeLimit(task)
  /\ UNCHANGED <<family, discVars, tspVars, vpnVars, cacheVars>>

\* line 113: vpn.full_clean() finds the vpn valid
DhFullClean ==
  /\ task.name = DhName /\ task.pc = "full_clean"
  /\ task' = [task EXCEPT !.pc = "save",
                          !.calls = Append(@, Call("full_clean", <<>>))]
  /\ UNCHANGED <<family, discVars, tspVars, vpnVars, cacheVars>>

\* a variant that swallows the validation error and goes on to save
DhSwallowInvalid(t) == [t EXCEPT !.pc = "save"]

\* where an exception raised by vpn.full_clean() takes the task
DhOnInvalid(t) == Raised(t, "ValidationError")

\* line 113: vpn.full_clean() raises ValidationError, which is not caught
DhInvalid ==
  /\ task.name = DhName /\ task.pc = "full_clean"
  /\ task' = DhOnInvalid([task EXCEPT !.invalid = TRUE,
                                      !.calls = Append(@, Call("full_clean", <<>>))])
  /\ UNCHANGED <<family, discVars, tspVars, vpnVars, cacheVars>>

\* line 114: vpn.save() writes the fetched row back, with the new dh
DhSave ==
  /\ task.name = DhName /\ task.pc = "save"
  /\ vpns' = [vpns EXCEPT ![task.pk] = task.vpn]
  /\ task' = Returned([task EXCEPT !.calls = Append(@, Call("save", <<>>))])
  /\ UNCHANGED <<family, discVars, tspVars, clients, cacheVars>>

(***************************************************************************)
(* invalidate_vpn_server_devices_cache_change                              *)
(***************************************************************************)
VcName == "invalidate_vpn_server_devices_cache_change"

NoClients == [v \in DOMAIN vpns |-> "absent"]

\* VpnClient.invalidate_clients_cache(vpn): the cached clients of the vpn
\* are dropped
InvalidateClients(c, pk) == [v \in DOMAIN c |-> IF v = pk THEN "absent" ELSE c[v]]

\* the clients of a vpn server are read, and cached
ClientsRead ==
  /\ family = "vpn"
  /\ \E v \in DOMAIN vpns :
       /\ clients[v] = "absent"
       /\ clients' = [clients EXCEPT ![v] = "cached"]
  /\ UNCHANGED <<family, discVars, task, tspVars, vpns, cacheVars>>

\* the task is received; it is a repeat when the task before it was the same
\* task with the same argument
VcStart ==
  /\ family = "vpn"
  /\ TaskFree
  /\ \E pk \in VpnPks :
       LET same == task.pc = "done" /\ task.name = VcName /\ task.pk = pk
       IN  task' = [TaskIdle EXCEPT !.name = VcName, !.pc = "get", !.pk = pk,
                                    !.repeat = same,
                                    !.after = IF same THEN task.after ELSE clients]
  /\ UNCHANGED <<family, discVars, tspVars, vpnVars, cacheVars>>

\* line 137: vpn = Vpn.objects.get(pk=vpn_pk); DoesNotExist is not caught
VcGet ==
  /\ task.name = VcName /\ task.pc = "get"
  /\ LET got == VpnGet(task.pk)
     IN  task' = IF got.exc = ""
                 THEN [task EXCEPT !.pc = "invalidate", !.vpn = got.row]
                 ELSE Raised([task EXCEPT
                                !.repeat = @ /\ task.after = clients,
                                !.before = clients, !.after = clients],
                             got.exc)
  /\ UNCHANGED <<family, discVars, tspVars, vpnVars, cacheVars>>

\* line 138: VpnClient.invalidate_clients_cache(vpn), and the task ends
VcInvalidate ==
  /\ task.name = VcName /\ task.pc = "invalidate"
  /\ clients' = InvalidateClients(clients, task.pk)
  /\ task' = Returned([task EXCEPT
                         !.repeat = @ /\ task.after = clients,
                         !.before = clients, !.after = clients',
                         !.calls = Append(@, Call("invalidate_clients_cache",
                                                  <<task.pk>>))])
  /\ UNCHANGED <<family, discVars, tspVars, vpns, cacheVars>>

(***************************************************************************)
(* The DeviceGroupCommonName cache and the tasks that invalidate it        *)
(***************************************************************************)
\* Model._meta.model_name of the models the tasks load
DeviceModel == "device"
DeviceGroupModel == "devicegroup"
CertModel == "cert"

\* the methods of DeviceGroupCommonName (api/views.py): each drops the cache
\* entries keyed by its arguments and leaves the others
Invalidate(fn, c, id, kwargs) ==
  LET hit(e) ==
        CASE fn = "device_change_invalidates_cache" -> e.device = id
          [] fn = "devicegroup_change_invalidates_cache" -> e.group = id
          [] fn = "certificate_change_invalidates_cache" -> e.cert = id
          [] fn = "devicegroup_delete_invalidates_cache" ->
               e.org = kwargs.organization_id
          [] fn = "certificate_delete_invalidates_cache" ->
               e.org = kwargs.organization_id /\ e.cn = kwargs.common_name
          [] OTHER -> FALSE
  IN  [e \in Entries |-> IF hit(e) THEN Absent ELSE c[e]]

\* the arguments each method is called with
CallArgs(fn, id, kwargs) ==
  CASE fn = "devicegroup_delete_invalidates_cache" -> <<kwargs.organization_id>>
    [] fn = "certificate_delete_invalidates_cache" ->
         <<kwargs.organization_id, kwargs.common_name>>
    [] OTHER -> <<id>>

\* a variant with the methods of Device and DeviceGroup exchanged
ChangeRouteSwapped(model_name) ==
  IF model_name = DeviceModel THEN "devicegroup_change_invalidates_cache"
  ELSE IF model_name = DeviceGroupModel
       THEN "device_change_invalidates_cache"
       ELSE IF model_name = CertModel
            THEN "certificate_change_invalidates_cache"
            ELSE ""

\* a variant whose last branch is an else: any other name is taken for Cert
ChangeRouteElse(model_name) ==
  IF model_name = DeviceModel THEN "device_change_invalidates_cache"
  ELSE IF model_name = DeviceGroupModel
       THEN "devicegroup_change_invalidates_cache"
       ELSE "certificate_change_invalidates_cache"

\* lines 125-130: the method invalidate_devicegroup_cache_change calls
ChangeRoute(model_name) ==
  IF model_name = DeviceModel THEN "device_change_invalidates_cache"
  ELSE IF model_name = DeviceGroupModel
       THEN "devicegroup_change_invalidates_cache"
       ELSE IF model_name = CertModel
            THEN "certificate_change_invalidates_cache"
            ELSE ""

\* a variant with the methods of DeviceGroup and Cert exchanged
DeleteRouteSwapped(model_name) ==
  IF model_name = DeviceGroupModel THEN "certificate_delete_invalidates_cache"
  ELSE IF model_name = CertModel THEN "devicegroup_delete_invalidates_cache"
       ELSE ""

\* lines 148-155: the method invalidate_devicegroup_cache_delete calls
DeleteRoute(model_name) ==
  IF model_name = DeviceGroupModel THEN "devicegroup_delete_invalidates_cache"
  ELSE IF model_name = CertModel THEN "certificate_delete_invalidates_cache"
       ELSE ""

ChangeName == "invalidate_devicegroup_cache_change"
DeleteName == "invalidate_devicegroup_cache_delete"

\* a message to the broker: the task and its arguments
Job(name, id, model_name, org, cn) ==
  [name |-> name, instance_id |-> id, model_name |-> model_name,
   kwargs |-> [organization_id |-> org, common_name |-> cn]]

\* the changes of the entities the cache is derived from, each with the
\* invalidation task its signal handler sends
Events ==
  {[affected |-> {e \in Entries : e.device = "d1"},
    job |-> Job(ChangeName, "d1", DeviceModel, "", "")],
   [affected |-> {e \in Entries : e.group = "g1"},
    job |-> Job(ChangeName, "g1", DeviceGroupModel, "", "")],
   [affected |-> {e \in Entries : e.cert = "x3"},
    job |-> Job(ChangeName, "x3", CertModel, "", "")],
   [affected |-> {e \in Entries : e.group = "g2"},
    job |-> Job(DeleteName, "g2", DeviceGroupModel, "o2", "")],
   [affected |-> {e \in Entries : e.cert = "x1"},
    job |-> Job(DeleteName, "x1", CertModel, "o1", "cn1")]}

\* every message the model sends: those of the events, and two whose model
\* name the task does not know
Jobs ==
  {ev.job : ev \in Events}
    \cup {Job(ChangeName, "d1", "config", "", ""),
          Job(DeleteName, "d1", DeviceModel, "o1", "cn1")}

\* an invalidation of key e was sent and has not run yet
Pending(e) ==
  \E k \in 1..Len(queue) :
    \E ev \in Events : ev.job = queue[k] /\ e \in ev.affected

\* an entity changes, and its signal handler sends the invalidation task
SourceChange ==
  /\ family = "cache"
  /\ Len(queue) < MaxQueue
  /\ \E ev \in Events :
       /\ \A e \in ev.affected : src[e] < MaxVer
       /\ src' = [e \in Entries |-> IF e \in ev.affected THEN src[e] + 1
                                                          ELSE src[e]]
       /\ queue' = Append(queue, ev.job)
  /\ UNCHANGED <<family, discVars, task, tspVars, vpnVars, cache, lastRead>>

\* a task is sent although nothing changed
Trigger ==
  /\ family = "cache"
  /\ Len(queue) < MaxQueue
  /\ \E job \in Jobs : queue' = Append(queue, job)
  /\ UNCHANGED <<family, discVars, task, tspVars, vpnVars, cache, src, lastRead>>

\* the view reads a key: the cached value, or a value computed from the
\* entities and cached
Reader ==
  /\ family = "cache"
  /\ \E e \in Entries :
       LET value == IF cache[e] = Absent THEN src[e] ELSE cache[e]
       IN  /\ cache' = [cache EXCEPT ![e] = value]
           /\ lastRead' = IF value = src[e] THEN "fresh"
                          ELSE IF Pending(e) THEN "stale, invalidation pending"
                               ELSE "stale"
  /\ UNCHANGED <<family, discVars, task, tspVars, vpnVars, src, queue>>

\* a variant that takes a key that is not in the cache for an error
AfterInvalidateStrict(t) ==
  IF t.calls # <<>> /\ t.after = t.before THEN Raised(t, "KeyError")
  ELSE Returned(t)

\* lines 126-130 and 149-155: the method returns, whatever it found in the
\* cache, and the task ends
AfterInvalidate(t) == Returned(t)

\* the task at the head of the queue runs: the call of method fn, if any; it
\* is a repeat when the task before it was the same task with the same
\* arguments and the cache is as that task left it
RunInvalidation(fn) ==
  LET job == Head(queue)
      c == IF fn = "" THEN cache
           ELSE Invalidate(fn, cache, job.instance_id, job.kwargs)
  IN  /\ cache' = c
      /\ queue' = Tail(queue)
      /\ task' = AfterInvalidate([TaskIdle EXCEPT
                             !.name = job.name, !.pk = job.instance_id,
                             !.model_name = job.model_name,
                             !.kwargs = job.kwargs,
                             !.repeat = /\ task.pc = "done"
                                        /\ task.name = job.name
                                        /\ task.pk = job.instance_id
                                        /\ task.model_name = job.model_name
                                        /\ task.kwargs = job.kwargs
                                        /\ task.after = cache,
                             !.before = cache, !.after = c,
                             !.calls = IF fn = "" THEN <<>>
                                       ELSE <<Call(fn, CallArgs(fn, job.instance_id,
                                                                job.kwargs))>>])

\* invalidate_devicegroup_cache_change, lines 118-130
InvalidateChange ==
  /\ TaskFree
  /\ queue # <<>> /\ Head(queue).name = ChangeName
  /\ RunInvalidation(ChangeRoute(Head(queue).model_name))
  /\ UNCHANGED <<family, discVars, tspVars, vpnVars, src, lastRead>>

\* invalidate_devicegroup_cache_delete, lines 142-155
InvalidateDelete ==
  /\ TaskFree
  /\ queue # <<>> /\ Head(queue).name = DeleteName
  /\ RunInvalidation(DeleteRoute(Head(queue).model_name))
  /\ UNCHANGED <<family, discVars, tspVars, vpnVars, src, lastRead>>

(***************************************************************************)
(* trigger_vpn_server_endpoint                                             *)
(***************************************************************************)
WhName == "trigger_vpn_server_endpoint"

HttpOk == 200

\* the status codes the endpoint answers with
StatusCodes == {HttpOk, 204, 404, 503}

VpnIds == {"v1", "v2"}

WhStart ==
  /\ family = "webhook"
  /\ TaskFree
  /\ \E vpn_id \in VpnIds, debug \in BOOLEAN :
       task' = [TaskIdle EXCEPT !.name = WhName, !.pc = "post", !.pk = vpn_id,
                                !.kwargs = [endpoint |-> "endpoint",
                                            auth_token |-> "auth_token",
                                            debug |-> debug]]
  /\ UNCHANGED <<family, discVars, tspVars, vpnVars, cacheVars>>

\* lines 160-164: the request, with the token as parameter key; the
\* certificate is verified unless settings.DEBUG
Post(t) ==
  Call("requests.post",
       [endpoint |-> t.kwargs.endpoint, key |-> t.kwargs.auth_token,
        verify |-> IF t.kwargs.debug THEN FALSE ELSE TRUE])

\* a variant that logs the failure and sends the request again
WhRetryOnFailure(t) ==
  IF t.response = HttpOk
  THEN Returned([t EXCEPT !.log = Append(@, [level |-> "info", vpn_id |-> t.pk])])
  ELSE [t EXCEPT !.log = Append(@, [level |-> "error",
                                    status_code |-> t.response,
                                    vpn_id |-> t.pk])]

\* lines 165-172: one line in the log, info for 200 and error for any other
\* status, and the task ends
WhOnResponse(t) ==
  Returned([t EXCEPT !.log =
              Append(@, IF t.response = HttpOk
                        THEN [level |-> "info", vpn_id |-> t.pk]
                        ELSE [level |-> "error", status_code |-> t.response,
                              vpn_id |-> t.pk])])

\* lines 160-172: the endpoint answers
WhPost ==
  /\ task.name = WhName /\ task.pc = "post"
  /\ \E status \in StatusCodes :
       task' = WhOnResponse([task EXCEPT !.calls = Append(@, Post(task)),
                                          !.response = status])
  /\ UNCHANGED <<family, discVars, tspVars, vpnVars, cacheVars>>

\* lines 160-164: requests.post raises (no connection), which is not caught
WhPostRaises ==
  /\ task.name = WhName /\ task.pc = "post"
  /\ task' = Raised([task EXCEPT !.calls = Append(@, Post(task))],
                    "ConnectionError")
  /\ UNCHANGED <<family, discVars, tspVars, vpnVars, cacheVars>>

(***************************************************************************)
(* change_devices_templates                                                *)
(***************************************************************************)
CdtName == "change_devices_templates"

ConfigModel == "config"

\* the keyword parameters a sender may give; the value of each is written as
\* the name of its key
KwKeys ==
  {"old_group_id", "group_id", "old_templates", "templates", "old_backend",
   "backend", "extra"}

KwargSets == {[k \in keys |-> k] : keys \in SUBSET KwKeys}

\* kwargs.get(key)
KwGet(kwargs, key) == IF key \in DOMAIN kwargs THEN kwargs[key] ELSE "None"

\* kwargs after kwargs.pop('old_backend') and kwargs.pop('backend')
KwRest(kwargs) == [k \in DOMAIN kwargs \ {"old_backend", "backend"} |-> kwargs[k]]

\* a variant whose last branch is an else: any other name is taken for Config
CascadeRouteElse(model_name) ==
  IF model_name = DeviceModel THEN "manage_devices_group_templates"
  ELSE IF model_name = DeviceGroupModel THEN "manage_group_templates"
       ELSE "manage_backend_changed"

\* lines 180, 187, 194: the method change_devices_templates calls
CascadeRoute(model_name) ==
  IF model_name = DeviceModel THEN "manage_devices_group_templates"
  ELSE IF model_name = DeviceGroupModel THEN "manage_group_templates"
       ELSE IF model_name = ConfigModel THEN "manage_backend_changed"
            ELSE ""

\* lines 181-185, 188-192, 195-200: the arguments of each method
CascadeArgs(fn, id, kwargs) ==
  CASE fn = "manage_devices_group_templates" ->
         [device_ids |-> id, old_group_ids |-> KwGet(kwargs, "old_group_id"),
          group_id |-> KwGet(kwargs, "group_id")]
    [] fn = "manage_group_templates" ->
         [group_id |-> id, old_template_ids |-> KwGet(kwargs, "old_templates"),
          template_ids |-> KwGet(kwargs, "templates")]
    [] fn = "manage_backend_changed" ->
         [instance_id |-> id, old_backend |-> kwargs["old_backend"],
          backend |-> kwargs["backend"], kwargs |-> KwRest(kwargs)]

\* lines 197-198: kwargs.pop(key) without a default raises KeyError when the
\* key is not there
PopRaises(fn, kwargs) ==
  fn = "manage_backend_changed" /\ ~({"old_backend", "backend"} \subseteq DOMAIN kwargs)

CdtStart ==
  /\ family = "cascade"
  /\ TaskFree
  /\ \E model_name \in {DeviceModel, DeviceGroupModel, ConfigModel, "template"},
        kwargs \in KwargSets :
       task' = [TaskIdle EXCEPT !.name = CdtName, !.pc = "route", !.pk = "i1",
                                !.model_name = model_name, !.kwargs = kwargs]
  /\ UNCHANGED <<family, discVars, tspVars, vpnVars, cacheVars>>

\* lines 180-200: the branch of the model name is run
CdtRoute ==
  /\ task.name = CdtName /\ task.pc = "route"
  /\ LET fn == CascadeRoute(task.model_name)
     IN  task' = IF fn = "" THEN Returned(task)
                 ELSE IF PopRaises(fn, task.kwargs) THEN Raised(task, "KeyError")
                      ELSE Returned([task EXCEPT !.calls =
                             Append(@, Call(fn, CascadeArgs(fn, task.pk,
                                                            task.kwargs)))])
  /\ UNCHANGED <<family, discVars, tspVars, vpnVars, cacheVars>>

(***************************************************************************)
(* The specification                                                       *)
(***************************************************************************)
Families == {"discovery", "template", "vpn", "cache", "webhook", "cascade"}

\* The families act on disjoint parts of the state, so a behaviour runs the
\* tasks of one family; the tables of the others keep their initial rows.
Init ==
  /\ family \in Families
  /\ registry \in IF family = "discovery" THEN InitRegistries ELSE {<<>>}
  /\ clock = 0
  /\ disc = [w \in Workers |-> DiscIdle]
  /\ task = TaskIdle
  /\ configs = [c \in Configs |-> "applied"]
  /\ vpns \in IF family = "vpn" THEN InitVpns
             ELSE {[v \in {"v1"} |-> [name |-> "vpn", dh |-> DhUnset]]}
  /\ clients = NoClients
  /\ cache = EmptyCache
  /\ src = [e \in Entries |-> 0]
  /\ queue = <<>>
  /\ lastRead = "none"

Discovery(w) ==
  \/ DiscStart(w)
  \/ DiscIgnoreLine(w)
  \/ DiscTxtRaises(w)
  \/ DiscInvalid(w)
  \/ DiscValid(w)
  \/ DiscGet(w)
  \/ DiscSave(w)
  \/ DiscRelease(w)

Next ==
  \/ \E w \in SeqWorkers : Discovery(w)
  \/ TspStart \/ TspMissing \/ TspCall \/ TspPropagate \/ TspDone
  \/ TspSoftTimeLimit
  \/ DhStart \/ DhGet \/ DhGenerated \/ DhSoftTimeLimit \/ DhFullClean
  \/ DhInvalid \/ DhSave
  \/ ClientsRead \/ VcStart \/ VcGet \/ VcInvalidate
  \/ WhStart \/ WhPost \/ WhPostRaises
  \/ CdtStart \/ CdtRoute
  \/ SourceChange \/ Trigger \/ Reader \/ InvalidateChange \/ InvalidateDelete

Spec == Init /\ [][Next]_vars

(***************************************************************************)
(* The specification of concurrent runs: every worker runs the discovery   *)
(* task on its own, and the Vpn table has a second writer                  *)
(***************************************************************************)
ConcLines == {LineKnown, LineUnknown}

ConcTexts == {Join(ls) : ls \in UNION {[1..n -> ConcLines] : n \in 1..MaxLines}}

\* line 22, on a worker that is free, whatever the other workers do
DiscStartConc(w) ==
  /\ family = "discovery"
  /\ disc[w].pc = "idle"
  /\ \E text \in ConcTexts :
       disc' = [disc EXCEPT ![w] =
                  [DiscIdle EXCEPT !.pc = "line", !.i = 1,
                                   !.lines = Split(text, "\n")]]
  /\ UNCHANGED <<family, registry, clock, task, tspVars, vpnVars, cacheVars>>

\* another writer of the Vpn table saves a new name for a vpn
VpnRename ==
  /\ family = "vpn"
  /\ \E v \in DOMAIN vpns :
       /\ vpns[v].name = "vpn"
       /\ vpns' = [vpns EXCEPT ![v].name = "renamed"]
  /\ UNCHANGED <<family, discVars, task, tspVars, clients, cacheVars>>

InitConc == Init /\ family \in {"discovery", "vpn"}

NextConc ==
  \/ \E w \in Workers :
       \/ DiscStartConc(w)
       \/ DiscValid(w)
       \/ DiscGet(w)
       \/ DiscSave(w)
       \/ DiscRelease(w)
  \/ DhStart \/ DhGet \/ DhGenerated \/ DhSoftTimeLimit \/ DhFullClean
  \/ DhInvalid \/ DhSave
  \/ VpnRename

SpecConc == InitConc /\ [][NextConc]_vars

(***************************************************************************)
(* Properties of update_adoptable_antenna_list                             *)
(***************************************************************************)
\* every entry of every worker's trace, with the line it is about
Outcomes ==
  {[w |-> w, o |-> disc[w].out[k], line |-> disc[w].lines[disc[w].out[k].i]] :
     <<w, k>> \in {x \in Workers \X (1..MaxLines + 1) :
                     x[2] <= Len(disc[x[1]].out)}}

\* the keys of the TXT fields of a line that have the form key=value
TxtKeys(line) ==
  LET txts == TxtFields(Split(line, ";"))
  IN  {SplitMax1(txts[j], "=")[1] :
         j \in {j \in 1..Len(txts) : HasSep(txts[j], "=")}}

LacksRequired(line) == ~({KeyMac, KeyOsVersion, KeyVersion} \subseteq TxtKeys(line))

\* the value a line gives for a key (the last one, as in a dict)
TxtValue(line, key) ==
  LET txts == TxtFields(Split(line, ";"))
      j == CHOOSE j \in 1..Len(txts) :
             /\ HasSep(txts[j], "=") /\ SplitMax1(txts[j], "=")[1] = key
             /\ \A l \in (j + 1)..Len(txts) :
                  ~(HasSep(txts[l], "=") /\ SplitMax1(txts[l], "=")[1] = key)
  IN  SplitMax1(txts[j], "=")[2]

\* C1: every resolved line that carries mac, os_version and version and
\* whose address (field 7) matches no row of the registry makes the task
\* add exactly one row, holding the parsed mac and os_version, that address
\* and a non-empty adoption key; the lookup that finds nothing does not end
\* the task with an error.
C1_UnknownAddressCreatesDevice ==
  \A x \in Outcomes :
    x.o.found = 0 =>
      /\ x.o.kind = "created"
      /\ x.o.added = 1
      /\ x.o.row \in 1..Len(registry)
      /\ registry[x.o.row].mac = TxtValue(x.line, KeyMac)
      /\ registry[x.o.row].os_version = TxtValue(x.line, KeyOsVersion)
      /\ registry[x.o.row].ip = Split(x.line, ";")[8]
      /\ registry[x.o.row].key # <<>>

\* C2: for every resolved line whose TXT records lack mac, os_version or
\* version, the task writes nothing to the registry for that line and logs
\* a warning about it.
C2_IncompleteLineWarnedNotWritten ==
  \A x \in Outcomes :
    (StartsWith(x.line, "=") /\ LacksRequired(x.line)) =>
      /\ x.o.kind = "warned"
      /\ x.o.added = 0
      /\ \E k \in 1..Len(disc[x.w].log) :
           disc[x.w].log[k] = [level |-> "warning", i |-> x.o.i]

Malformed(line) ==
  /\ StartsWith(line, "=")
  /\ LET antenna == Split(line, ";")
     IN  \/ Len(antenna) < 10
         \/ \E j \in 1..Len(TxtFields(antenna)) :
              ~HasSep(TxtFields(antenna)[j], "=")

\* C4: a malformed line never makes the task raise: it is skipped, and the
\* task goes on to the lines after it, so a task that has met a malformed
\* line ends by returning, with every line of the text dealt with.
C4_MalformedLineNeverRaises ==
  \A w \in Workers :
    /\ disc[w].result # "IndexError"
    /\ (/\ disc[w].pc = "done"
        /\ \E k \in 1..Len(disc[w].out) :
             /\ Malformed(disc[w].lines[disc[w].out[k].i])
             /\ disc[w].out[k].kind \in {"warned", "raised"})
         => Len(disc[w].out) = Len(disc[w].lines)

(***************************************************************************)
(* Properties of create_vpn_dh                                             *)
(***************************************************************************)
Called(fn) == \E k \in 1..Len(task.calls) : task.calls[k].fn = fn

\* C5: when the soft time limit is hit while the parameters are generated,
\* the task has returned without raising, the stored vpn still has the dh it
\* had when the task fetched it, and neither full_clean nor save was called.
C5_TimeoutLeavesDhUnchanged ==
  (task.name = DhName /\ task.timedOut) =>
    /\ task.pc = "done"
    /\ task.result = "returned"
    /\ vpns[task.pk] = task.stored
    /\ task.vpn.dh = task.stored.dh
    /\ ~Called("full_clean")
    /\ ~Called("save")
    /\ task.log = <<[level |-> "error"]>>

\* the time limit was hit for a vpn whose dh was unset
C5_Witness ==
  /\ task.name = DhName /\ task.timedOut /\ task.pc = "done"
  /\ Called("dhparam")
  /\ vpns[task.pk].dh = DhUnset

\* C6: when full_clean fails after the parameters were generated, the task
\* ends with the validation error, save is not called and the stored vpn is
\* as it was fetched; save is only ever called right after a full_clean
\* that returned.
C6_InvalidVpnNeverSaved ==
  task.name = DhName =>
    /\ task.invalid =>
         /\ task.pc = "done"
         /\ task.result = "ValidationError"
         /\ ~Called("save")
         /\ vpns[task.pk] = task.stored
    /\ \A k \in 1..Len(task.calls) :
         task.calls[k].fn = "save" =>
           /\ k > 1
           /\ task.calls[k - 1].fn = "full_clean"
           /\ ~task.invalid

\* generation succeeded, validation failed
C6_Witness ==
  /\ task.name = DhName /\ task.invalid /\ task.pc = "done"
  /\ task.vpn.dh = Dhparam(DhBits)
  /\ vpns[task.pk].dh # Dhparam(DhBits)

(***************************************************************************)
(* Properties of update_template_related_config_status                     *)
(***************************************************************************)
\* C7: invoked with the id of no template, the task returns without raising
\* and without calling _update_related_config_status; it logs a warning.
C7_MissingTemplateIsNoOp ==
  (task.name = TspName /\ task.pk \notin Templates /\ task.pc # "get") =>
    /\ task.pc = "done"
    /\ task.result = "returned"
    /\ task.calls = <<>>
    /\ task.log = <<[level |-> "warning"]>>

\* the task has run for a template that does not exist
C7_Witness ==
  task.name = TspName /\ task.pk = "t9" /\ task.pc = "done"

\* C8: when the template exists the task calls
\* _update_related_config_status exactly once; when the soft time limit is
\* hit during the call the task logs an error and returns without raising,
\* does not call it again, and the configs already flagged stay flagged.
C8_RecomputeInvokedOnce ==
  (task.name = TspName /\ task.pk \in Templates /\ task.pc # "get") =>
    /\ task.calls = <<Call("_update_related_config_status", <<task.pk>>)>>
    /\ task.result \in {"none", "returned"}
    /\ \A c \in Bound(task.pk) \ task.todo : configs[c] = "modified"
    /\ task.timedOut =>
         /\ task.pc = "done"
         /\ task.result = "returned"
         /\ task.log = <<[level |-> "error"]>>
    /\ (task.pc = "done" /\ ~task.timedOut) => task.todo = {}

\* the time limit was hit when one of two bound configs had been flagged
C8_Witness ==
  /\ task.name = TspName /\ task.pk = "t1" /\ task.pc = "done"
  /\ task.timedOut
  /\ \E c \in Bound("t1") : c \in task.todo /\ configs[c] = "applied"
  /\ \E c \in Bound("t1") : c \notin task.todo /\ configs[c] = "modified"

(***************************************************************************)
(* Properties of the cache invalidation tasks                              *)
(***************************************************************************)
Stale(e) == cache[e] # Absent /\ cache[e] # src[e]

\* C9 as stated: no reader ever gets a stale entry, however the change of
\* the source, the invalidation task and the reader interleave.
C9_NoStaleRead ==
  lastRead \notin {"stale", "stale, invalidation pending"}

\* C9 as amended: a key is stale, and a read of it returns a stale value,
\* only while an invalidation task sent for a change of its source has not
\* run yet; once those tasks have run the key is absent or fresh.
C9_StaleOnlyWhilePending ==
  /\ lastRead # "stale"
  /\ \A e \in Entries : Stale(e) => Pending(e)

\* an invalidation task dropped a stale key, and a later read of that key
\* cached the fresh value
C9_Witness ==
  /\ lastRead = "fresh"
  /\ queue = <<>>
  /\ task.name \in {ChangeName, DeleteName} /\ task.pc = "done"
  /\ \E e \in Entries :
       /\ task.before[e] # Absent /\ task.before[e] < src[e]
       /\ task.after[e] = Absent
       /\ cache[e] = src[e]

\* the entries invalidate_devicegroup_cache_change is to invalidate
KeyedBy(id, model_name) ==
  CASE model_name = "device" -> {e \in Entries : e.device = id}
    [] model_name = "devicegroup" -> {e \in Entries : e.group = id}
    [] model_name = "cert" -> {e \in Entries : e.cert = id}
    [] OTHER -> {}

MethodFor(model_name) ==
  CASE model_name = "device" -> "device_change_invalidates_cache"
    [] model_name = "devicegroup" -> "devicegroup_change_invalidates_cache"
    [] model_name = "cert" -> "certificate_change_invalidates_cache"
    [] OTHER -> ""

\* C10: invalidate_devicegroup_cache_change makes exactly one call, of the
\* method of the model named, with the instance id, and none for a model
\* name it does not know; the entries keyed by that device, group or
\* certificate are invalidated and every other entry is as it was.
C10_ChangeRoutesByModelName ==
  (task.name = ChangeName /\ task.pc = "done") =>
    /\ task.result = "returned"
    /\ task.calls =
         IF MethodFor(task.model_name) = "" THEN <<>>
         ELSE <<Call(MethodFor(task.model_name), <<task.pk>>)>>
    /\ \A e \in Entries :
         task.after[e] = IF e \in KeyedBy(task.pk, task.model_name)
                         THEN Absent ELSE task.before[e]

\* the change of device d1 dropped its cached entry and left another
\* cached entry of the same group
C10_Witness ==
  /\ task.name = ChangeName /\ task.pc = "done"
  /\ task.model_name = "device" /\ task.pk = "d1"
  /\ \E e \in Entries :
       e.device = "d1" /\ task.before[e] # Absent /\ task.after[e] = Absent
  /\ \E e \in Entries :
       e.device # "d1" /\ e.group = "g1" /\ task.after[e] # Absent

\* the entries invalidate_devicegroup_cache_delete is to invalidate
ScopedTo(model_name, kwargs) ==
  CASE model_name = "devicegroup" ->
         {e \in Entries : e.org = kwargs.organization_id}
    [] model_name = "cert" ->
         {e \in Entries : e.org = kwargs.organization_id
                          /\ e.cn = kwargs.common_name}
    [] OTHER -> {}

\* C11: invalidate_devicegroup_cache_delete for a DeviceGroup of
\* organization X invalidates every entry of X and no entry of another
\* organization; for a Cert it invalidates only the entry keyed by the
\* organization id and the common name; it makes the one call that does so.
C11_DeleteScopedToOrganization ==
  (task.name = DeleteName /\ task.pc = "done") =>
    /\ task.result = "returned"
    /\ task.calls =
         CASE task.model_name = "devicegroup" ->
                <<Call("devicegroup_delete_invalidates_cache",
                       <<task.kwargs.organization_id>>)>>
           [] task.model_name = "cert" ->
                <<Call("certificate_delete_invalidates_cache",
                       <<task.kwargs.organization_id, task.kwargs.common_name>>)>>
           [] OTHER -> <<>>
    /\ \A e \in Entries :
         task.after[e] = IF e \in ScopedTo(task.model_name, task.kwargs)
                         THEN Absent ELSE task.before[e]

\* the delete of a group of o2 dropped the cached entry of o2 and left the
\* cached entries of o1
C11_Witness ==
  /\ task.name = DeleteName /\ task.pc = "done"
  /\ task.model_name = "devicegroup" /\ task.kwargs.organization_id = "o2"
  /\ \E e \in Entries :
       e.org = "o2" /\ task.before[e] # Absent /\ task.after[e] = Absent
  /\ \A e \in Entries : e.org = "o1" => task.after[e] # Absent

\* the names of the tasks that invalidate a cache
InvalidationNames == {ChangeName, DeleteName, VcName}

\* the keys the method called by a run of an invalidation task is about
Targets(t) ==
  {e \in Entries :
     Invalidate(t.calls[1].fn, [x \in Entries |-> 0], t.pk, t.kwargs)[e] = Absent}

C13_WebhookOneRequestOneLogLine ==
  task.name = WhName =>
    /\ Len(task.calls) <= 1
    /\ \A k \in 1..Len(task.calls) : task.calls[k] = Post(task)
    /\ task.pc = "post" => task.calls = <<>> /\ task.log = <<>>
    /\ task.pc = "done" =>
         /\ Len(task.calls) = 1
         /\ task.response # 0 =>
              /\ task.result = "returned"
              /\ task.log =
                   IF task.response = 200
                   THEN <<[level |-> "info", vpn_id |-> task.pk]>>
                   ELSE <<[level |-> "error", status_code |-> task.response,
                           vpn_id |-> task.pk]>>

\* the endpoint answered 503: one request, one error with 503 and the id
C13_Witness ==
  /\ task.name = WhName /\ task.pc = "done"
  /\ task.response = 503
  /\ Len(task.calls) = 1
  /\ task.log = <<[level |-> "error", status_code |-> 503, vpn_id |-> task.pk]>>

(***************************************************************************)
(* Properties of change_devices_templates                                  *)
(***************************************************************************)
CascadeMethods ==
  {"manage_devices_group_templates", "manage_group_templates",
   "manage_backend_changed"}

\* the method the claim assigns to a model name
CascadeMethodFor(model_name) ==
  CASE model_name = "device" -> "manage_devices_group_templates"
    [] model_name = "devicegroup" -> "manage_group_templates"
    [] model_name = "config" -> "manage_backend_changed"
    [] OTHER -> ""

\* the keyword parameters lack one of the two backends
LacksBackend(kwargs) == ~({"old_backend", "backend"} \subseteq DOMAIN kwargs)

\* C14, as stated: for every set of keyword parameters a run with the model
\* name Device, DeviceGroup or Config calls exactly one of the three methods,
\* the one of that name; a run with any other name calls none and returns.
C14_ExactlyOneForEveryKwargs ==
  (task.name = CdtName /\ task.pc = "done") =>
    IF CascadeMethodFor(task.model_name) # ""
    THEN /\ Len(task.calls) = 1
         /\ task.calls[1].fn = CascadeMethodFor(task.model_name)
    ELSE task.calls = <<>> /\ task.result = "returned"

\* C14, amended: the same, except that a run with the model name Config whose
\* keyword parameters lack old_backend or backend raises KeyError and calls
\* none of the three methods.
C14_ExactlyOneWhenBackendsGiven ==
  (task.name = CdtName /\ task.pc = "done") =>
    /\ \A k \in 1..Len(task.calls) : task.calls[k].fn \in CascadeMethods
    /\ IF task.model_name = "config" /\ LacksBackend(task.kwargs)
       THEN task.calls = <<>> /\ task.result = "KeyError"
       ELSE IF CascadeMethodFor(task.model_name) # ""
            THEN /\ Len(task.calls) = 1
                 /\ task.calls[1].fn = CascadeMethodFor(task.model_name)
                 /\ task.result = "returned"
            ELSE task.calls = <<>> /\ task.result = "returned"

\* a run for a Config with both backends and one more keyword parameter:
\* manage_backend_changed is called, with that parameter passed on
C14_Witness ==
  /\ task.name = CdtName /\ task.pc = "done"
  /\ task.model_name = "config"
  /\ DOMAIN task.kwargs = {"old_backend", "backend", "extra"}
  /\ Len(task.calls) = 1
  /\ task.calls[1].fn = "manage_backend_changed"
  /\ DOMAIN task.calls[1].arg.kwargs = {"extra"}

(***************************************************************************)
(* Properties of the tasks that look a vpn up                              *)
(***************************************************************************)
\* C15: create_vpn_dh and invalidate_vpn_server_devices_cache_change end at
\* the lookup when no Vpn has the key: DoesNotExist leaves the task, and no
\* parameters are generated, nothing is validated or saved, no client cache
\* is invalidated and nothing is logged.
C15_MissingVpnIsFatal ==
  (task.name \in {DhName, VcName} /\ task.pk \notin DOMAIN vpns
   /\ task.pc # "get") =>
    /\ task.pc = "done"
    /\ task.result = "DoesNotExist"
    /\ task.calls = <<>>
    /\ task.log = <<>>
    /\ task.vpn = NoVpn
    /\ task.name = VcName => task.after = task.before

\* invalidate_vpn_server_devices_cache_change ended with DoesNotExist while
\* the clients of an existing vpn were cached, and they still are
C15_Witness ==
  /\ task.name = VcName /\ task.pc = "done"
  /\ task.pk \notin DOMAIN vpns
  /\ task.result = "DoesNotExist"
  /\ \E v \in DOMAIN vpns : task.before[v] = "cached" /\ clients[v] = "cached"

C17_LastSeenNeverDecreases ==
  [][\A r \in 1..Len(registry) :
       registry'[r].last_seen >= registry[r].last_seen]_vars

\* C17, amended: the last write wins: every step that changes last_seen of a
\* row is the save of a task that looked that row up, and leaves in it the
\* time that task took at line 54, whether or not the row held a later one.
C17_LastWriteWins ==
  [][\A r \in 1..Len(registry) :
       registry'[r].last_seen # registry[r].last_seen =>
         \E w \in Workers :
           /\ disc[w].pc = "save" /\ disc'[w].pc # "save"
           /\ disc[w].known = r
           /\ registry'[r].last_seen = disc[w].now]_vars

\* two tasks updated the same row, and the row holds the earlier of their
\* two times: the task that took its time first saved last
C17_Witness ==
  \E x, y \in Outcomes :
    /\ x.w # y.w
    /\ x.o.kind = "updated" /\ y.o.kind = "updated"
    /\ x.o.row = y.o.row
    /\ x.o.after < y.o.after
    /\ registry[x.o.row].last_seen = x.o.after

\* C18: the save of create_vpn_dh changes only dh: what another writer saved
\* to the row between the lookup of line 104 and the save of line 114 is
\* still in the row after the save.
C18_SaveKeepsOtherWrites ==
  [][(task.name = DhName /\ task.pc = "save" /\ task'.pc = "done") =>
       vpns'[task.pk].name = vpns[task.pk].name]_vars

NotResolved(line) == Len(line) = 0 \/ line[1] # "="

\* C20: a line that does not start with '=' (a '+' or '-' event, an empty
\* line) causes no lookup in the registry, no write to it and no warning:
\* the task is never at the lookup or the save for such a line, and what it
\* did with the line is nothing.
C20_UnresolvedLineIgnored ==
  /\ \A w \in Workers :
       (disc[w].pc \in {"get", "save"}) => ~NotResolved(Antenna(w))
  /\ \A x \in Outcomes :
       NotResolved(x.line) =>
         /\ x.o.kind = "ignored"
         /\ x.o.found = -1
         /\ x.o.added = 0
         /\ \A k \in 1..Len(disc[x.w].log) : disc[x.w].log[k].i # x.o.i

\* a task has passed over a '+' line that names a known address, with all
\* three keys, and the row of that address is as it was
C20_Witness ==
  \E x \in Outcomes :
    /\ x.line = LineAdded
    /\ x.o.kind = "ignored"
    /\ disc[x.w].pc = "done"
    /\ registry # <<>> /\ registry[1] = RowA
====
